---- MODULE Spec2Model ----
(***************************************************************************)
(* TinyParser: fetches a page, scans the streamed body for the og: meta    *)
(* tags and reports them through the events startedParsing, data, end and  *)
(* error.  The model follows the class TinyParser with handleChunk and     *)
(* handleEnd, and MetaTagsParser._parseBody.                               *)
(*                                                                         *)
(* Strings are sequences of one-character strings, so that startsWith,     *)
(* includes and split are computed as the code computes them.              *)
(*                                                                         *)
(* The transport is the environment: it answers a request with a response  *)
(* head or a failure, delivers body chunks in order, ends or fails the     *)
(* body, and stops delivering once the request's signal is aborted.  Each  *)
(* callback of the class is one step, as the event loop runs one callback  *)
(* at a time.  The events of a run are the emit() calls made for it,       *)
(* whether or not a listener is registered.                                *)
(***************************************************************************)
EXTENDS Integers, Sequences, FiniteSets, TLC

\* ------------------------------------------------------------------ bounds
\* _startParsing calls per engine, the constructor's included
MaxRuns == 2
\* body chunks the transport delivers, over all responses
MaxChunks == 2

\* ---------------------------------------------------------------- literals
Http == <<"h", "t", "t", "p">>
Https == <<"h", "t", "t", "p", "s">>
HeadClose == <<"<", "/", "h", "e", "a", "d", ">">>
Newline == <<"\n">>
ContentAttr == <<"c", "o", "n", "t", "e", "n", "t", "=", "\"">>
Quote == <<"\"">>
OgTitle == <<"o", "g", ":", "t", "i", "t", "l", "e">>
OgDescription == <<"o", "g", ":", "d", "e", "s", "c", "r", "i", "p", "t", "i", "o", "n">>
OgImage == <<"o", "g", ":", "i", "m", "a", "g", "e">>
Html == <<"h", "t", "m", "l">>
TextPlain == <<"t", "e", "x", "t", "/", "p", "l", "a", "i", "n">>

\* the tag markers, in the order the inner loop visits them
tags == <<OgTitle, OgDescription, OgImage>>

\* the key a marker is stored under: tag.split(":")[1]
tagKey(tag) ==
  IF tag = OgTitle THEN "title"
  ELSE IF tag = OgDescription THEN "description"
  ELSE "image"

\* ------------------------------------------------------- string primitives
\* String.prototype.startsWith
startsWith(s, p) == Len(p) <= Len(s) /\ SubSeq(s, 1, Len(p)) = p

\* String.prototype.indexOf, 1-based, 0 when p does not occur at or after from
indexOf(s, p, from) ==
  LET hits == {i \in from..(Len(s) - Len(p) + 1) : SubSeq(s, i, i + Len(p) - 1) = p}
  IN IF hits = {} THEN 0 ELSE CHOOSE i \in hits : \A j \in hits : i <= j

\* String.prototype.includes
includes(s, p) == indexOf(s, p, 1) # 0

\* String.prototype.split with a non-empty separator
RECURSIVE split(_, _)
split(s, sep) ==
  LET i == indexOf(s, sep, 1)
  IN IF i = 0 THEN <<s>>
     ELSE <<SubSeq(s, 1, i - 1)>> \o split(SubSeq(s, i + Len(sep), Len(s)), sep)

\* ------------------------------------------------- MetaTagsParser._parseBody
\* the initial obj
EmptyParsed == [title |-> <<>>, description |-> <<>>, image |-> <<>>]

\* faulty variant: a key that has a value keeps it
parseTagFirstWins(line, tag, acc) ==
  IF acc.fault \/ ~includes(line, tag) THEN acc
  ELSE LET parts == split(line, ContentAttr)
       IN IF Len(parts) < 2 THEN [acc EXCEPT !.fault = TRUE]
          ELSE IF acc.obj[tagKey(tag)] # <<>> THEN acc
          ELSE [acc EXCEPT !.obj[tagKey(tag)] = split(parts[2], Quote)[1]]

\* One iteration of the inner loop.  acc.fault records the TypeError thrown
\* by `undefined.split` when the line holds a marker and no content=" .
parseTag(line, tag, acc) ==
  IF acc.fault \/ ~includes(line, tag) THEN acc
  ELSE LET parts == split(line, ContentAttr)
       IN IF Len(parts) < 2 THEN [acc EXCEPT !.fault = TRUE]
          ELSE [acc EXCEPT !.obj[tagKey(tag)] = split(parts[2], Quote)[1]]

\* `for (const tag of tags)` over one line
parseLine(line, acc) ==
  parseTag(line, tags[3], parseTag(line, tags[2], parseTag(line, tags[1], acc)))

RECURSIVE parseLines(_, _)
parseLines(lines, acc) ==
  IF lines = <<>> THEN acc
  ELSE parseLines(Tail(lines), parseLine(Head(lines), acc))

\* faulty variant: obj starts without its three empty strings
parseBodyNoDefaults(body) ==
  parseLines(split(body, Newline),
             [fault |-> FALSE,
              obj |-> [title |-> <<"?">>, description |-> <<"?">>, image |-> <<"?">>]])

\* _parseBody(body): [fault |-> TRUE] stands for the thrown TypeError
parseBody(body) == parseLines(split(body, Newline), [fault |-> FALSE, obj |-> EmptyParsed])

\* -------------------------------------------------------------------- state
VARIABLES
  url,                     \* this.url
  timeoutAbortController,  \* 0 is null; n is the controller made by run n's _setTimeout
  httpAbortController,     \* the current request controller, by number
  runs,                    \* one record per _startParsing call, in call order
  buffer,                  \* the argument of a call of _parseBody on its own
  extracted,               \* <<>> before that call, <<its outcome>> after it
  listenerSince            \* -1: no listener; n: on() was called after n emit() calls

vars ==
  <<url, timeoutAbortController, httpAbortController, runs, buffer, extracted,
    listenerSince>>

\* A run record:
\*   url      the URL the run was started with
\*   timer    the delay of _setTimeout: "none", "pending", "elapsed", "cancelled"
\*   request  the request and its response: "none", "sent", "failed", "aborted",
\*            "rejected", "streaming", "aborting", "destroyed", "ended"
\*   signal   the request controller whose signal the request was made with
\*   rawData  the variable `rawData` of the response's data listener
\*   chunks   the chunks the data listener was called with, in order
\*   events   the emit() calls made on behalf of the run, in order
\* The delay is not measured: a pending timer may elapse at any time.

\* ------------------------------------------------------------------- inputs
UrlEmpty == <<>>
UrlHttp == <<"h", "t", "t", "p", ":", "/", "/", "a", "/">>
UrlFtp == <<"f", "t", "p", ":", "/", "/", "a", "/">>
\* a proper prefix of "http"
UrlHtt == <<"h", "t", "t">>
\* One valid URL stands for all: past validation the URL only selects the
\* http or the https module in doGetRequest.
Urls == {UrlEmpty, UrlHttp, UrlFtp, UrlHtt}


TextHtml == <<"t", "e", "x", "t", "/", "h", "t", "m", "l">>
TextPlainCharset ==
  <<"t", "e", "x", "t", "/", "p", "l", "a", "i", "n", ";", " ", "c", "h", "a", "r", "s",
    "e", "t", "=", "u", "t", "f", "-", "8">>
AppJson ==
  <<"a", "p", "p", "l", "i", "c", "a", "t", "i", "o", "n", "/", "j", "s", "o", "n">>
\* Response heads <<statusCode, content-type>>; 0 stands for an absent
\* statusCode and <<>> for an absent header.
Responses ==
  {<<200, TextHtml>>, <<399, TextPlain>>, <<200, TextPlainCharset>>, <<200, AppJson>>,
   <<400, TextHtml>>, <<404, TextPlain>>, <<0, TextHtml>>, <<200, <<>>>>}

\* Body chunks the transport may deliver.  A response body is the
\* concatenation of the chunks delivered for it, so every body that can be
\* cut into these pieces, and every such cut, is covered.
\* three meta tags, one per line
ChunkTags ==
  <<"<", "m", "e", "t", "a", " ", "p", "r", "o", "p", "e", "r", "t", "y", "=", "\"", "o",
    "g", ":", "t", "i", "t", "l", "e", "\"", " ", "c", "o", "n", "t", "e", "n", "t", "=",
    "\"", "T", "\"", ">", "\n", "<", "m", "e", "t", "a", " ", "p", "r", "o", "p", "e",
    "r", "t", "y", "=", "\"", "o", "g", ":", "d", "e", "s", "c", "r", "i", "p", "t", "i",
    "o", "n", "\"", " ", "c", "o", "n", "t", "e", "n", "t", "=", "\"", "D", "\"", ">",
    "\n", "<", "m", "e", "t", "a", " ", "p", "r", "o", "p", "e", "r", "t", "y", "=",
    "\"", "o", "g", ":", "i", "m", "a", "g", "e", "\"", " ", "c", "o", "n", "t", "e",
    "n", "t", "=", "\"", "I", "\"", ">", "\n">>
\* the end of the head section
ChunkHead ==
  <<"<", "/", "h", "e", "a", "d", ">", "\n">>
\* the whole head in one chunk
ChunkFull == ChunkTags \o ChunkHead
Chunks == {ChunkTags, ChunkHead, ChunkFull}

\* ------------------------------------------------------------------- events
\* message is "" and data is EmptyParsed where the event carries none.  Of an
\* invalid-response message only the first line is kept.
Event(n, m, d) == [name |-> n, message |-> m, data |-> d]
Started == Event("startedParsing", "", EmptyParsed)
Data(d) == Event("data", "", d)
End == Event("end", "", EmptyParsed)
Error(m) == Event("error", m, EmptyParsed)

MsgRequired == "URL is required"
MsgScheme == "URL should start with http or https"
MsgTimeout == "Request Timed Out"
MsgFailed == "Request Failed."
MsgContentType == "Invalid content-type."
MsgHttp == "Tiny Parser Got error while doing http call"

\* this.emit(...) in a callback of run r
emit(rs, r, e) == [rs EXCEPT ![r].events = Append(@, e)]

\* ------------------------------------------------------------ _validateURL
\* faulty variant: the check for a missing URL is left out
validateURLNoEmptyCheck(u) ==
  IF ~startsWith(u, Http) /\ ~startsWith(u, Https) THEN MsgScheme ELSE ""

\* faulty variant: the check of the scheme is left out
validateURLNoSchemeCheck(u) == IF u = <<>> THEN MsgRequired ELSE ""

\* the message of the error it emits, "" when it returns true
validateURL(u) ==
  IF u = <<>> THEN MsgRequired
  ELSE IF ~startsWith(u, Http) /\ ~startsWith(u, Https) THEN MsgScheme
  ELSE ""

\* ----------------------------------------------------------- _startParsing
\* A call that fails validation emits the error and returns: no timer, no
\* request.
NoRun(u, m) ==
  [url |-> u, timer |-> "none", request |-> "none", signal |-> 0,
   rawData |-> <<>>, chunks |-> <<>>, events |-> <<Error(m)>>]

\* _setTimeout up to its await, then emit("startedParsing"), then the get
\* with the current request controller's signal.
NewRun(u) ==
  [url |-> u, timer |-> "pending", request |-> "sent", signal |-> httpAbortController,
   rawData |-> <<>>, chunks |-> <<>>, events |-> <<Started>>]

startParsing(u) ==
  LET m == validateURL(u)
  IN IF m # ""
     THEN /\ runs' = Append(runs, NoRun(u, m))
          /\ UNCHANGED <<timeoutAbortController, httpAbortController>>
     ELSE /\ timeoutAbortController' = Len(runs) + 1
          /\ runs' = Append(runs, NewRun(u))
          /\ UNCHANGED httpAbortController

\* faulty variant: the constructor puts off _startParsing and returns
ConstructDeferred(u) ==
  /\ runs = <<>>
  /\ url' = u
  /\ runs' = <<[url |-> u, timer |-> "none", request |-> "deferred", signal |-> 0,
               rawData |-> <<>>, chunks |-> <<>>, events |-> <<>>]>>
  /\ UNCHANGED <<timeoutAbortController, httpAbortController, buffer, extracted, listenerSince>>

\* faulty variant: the constructor does not assign this.url
ConstructNoUrl(u) ==
  /\ runs = <<>>
  /\ UNCHANGED url
  /\ startParsing(u)
  /\ UNCHANGED <<buffer, extracted, listenerSince>>

\* new TinyParser(url, timeout)
Construct(u) ==
  /\ runs = <<>>
  /\ url' = u
  /\ startParsing(u)
  /\ UNCHANGED <<buffer, extracted, listenerSince>>

\* The constructor returned: its emit("error") finds no listener, since none
\* can be registered before it runs, and so throws out of the constructor.
Constructed == runs # <<>> /\ runs[1].request # "none"

\* setUrl(url)
SetUrl(u) ==
  /\ Constructed
  /\ Len(runs) < MaxRuns
  /\ url' = u
  /\ startParsing(u)
  /\ UNCHANGED <<buffer, extracted, listenerSince>>

\* --------------------------------------------------- the request's signal
\* What aborting its signal does to a request: before the response the
\* request fails with an AbortError; while the body streams the 'data'
\* listeners are removed and the response is destroyed with 'aborted';
\* a finished or failed request is not touched.
afterAbort(st) ==
  IF st = "sent" THEN "aborted"
  ELSE IF st = "streaming" THEN "aborting"
  ELSE st

\* controller c .abort(): every request made with c's signal
abortRequests(rs, c) ==
  [q \in DOMAIN rs |->
     IF rs[q].signal = c THEN [rs[q] EXCEPT !.request = afterAbort(@)] ELSE rs[q]]

\* ------------------------------------------------------------ _clearTimeout
\* faulty variant: the field is reset and the controller is not aborted
clearTimeoutNoAbort(rs) == rs

\* aborts the timer whose controller the field holds, if any; the field is
\* null afterwards.  Aborting a timer that has elapsed does nothing.
clearTimeout(rs) ==
  IF timeoutAbortController = 0 THEN rs
  ELSE [rs EXCEPT ![timeoutAbortController].timer =
                     IF @ = "pending" THEN "cancelled" ELSE @]

\* -------------------------------------------------------------- _setTimeout
\* faulty variant: the request controller is neither aborted nor replaced
onTimeoutNoAbort(r) ==
  /\ runs' = emit([runs EXCEPT ![r].timer = "elapsed"], r, Error(MsgTimeout))
  /\ UNCHANGED <<httpAbortController, timeoutAbortController>>

\* the .then callback of run r's delay
onTimeout(r) ==
  /\ runs' = emit([abortRequests(runs, httpAbortController) EXCEPT ![r].timer = "elapsed"],
                  r, Error(MsgTimeout))
  /\ httpAbortController' = httpAbortController + 1
  /\ UNCHANGED timeoutAbortController

\* run r's delay elapses before its signal is aborted
TimerElapses(r) ==
  /\ runs[r].timer = "pending"
  /\ onTimeout(r)
  /\ UNCHANGED <<url, buffer, extracted, listenerSince>>

\* ---------------------------------------------------------------- handleEnd
\* faulty variant: emit("end") is left out
handleEndNoEnd(r, rawData, rs) ==
  LET parsed == parseBody(split(rawData, HeadClose)[1] \o HeadClose)
  IN IF parsed.fault
     THEN /\ runs' = rs
          /\ UNCHANGED timeoutAbortController
     ELSE /\ runs' = clearTimeout(emit(rs, r, Data(parsed.obj)))
          /\ timeoutAbortController' = 0

\* faulty variant: a fault of _parseBody is caught and the initial obj is used
handleEndFaultCaught(r, rawData, rs) ==
  LET parsed == parseBody(split(rawData, HeadClose)[1] \o HeadClose)
      obj == IF parsed.fault THEN EmptyParsed ELSE parsed.obj
  IN /\ runs' = emit(clearTimeout(emit(rs, r, Data(obj))), r, End)
     /\ timeoutAbortController' = 0

\* rs is runs with the chunk at hand recorded.  A fault of _parseBody leaves
\* handleEnd before its first emit.
handleEnd(r, rawData, rs) ==
  LET head == split(rawData, HeadClose)[1] \o HeadClose
      parsed == parseBody(head)
  IN IF parsed.fault
     THEN /\ runs' = rs
          /\ UNCHANGED timeoutAbortController
     ELSE /\ runs' = emit(clearTimeout(emit(rs, r, Data(parsed.obj))), r, End)
          /\ timeoutAbortController' = 0

\* -------------------------------------------------------------- handleChunk
\* faulty variant: the marker is looked for in all the chunks so far
RECURSIVE soFar(_)
soFar(chunks) == IF chunks = <<>> THEN <<>> ELSE Head(chunks) \o soFar(Tail(chunks))
handleChunkWholeBody(r, chunk) ==
  LET rawData == soFar(runs[r].chunks) \o chunk
      rs == [runs EXCEPT ![r].chunks = Append(@, chunk)]
  IN IF includes(rawData, HeadClose)
     THEN handleEnd(r, rawData, rs)
     ELSE /\ runs' = rs
          /\ UNCHANGED timeoutAbortController

\* faulty variant: the callback is called for every chunk
handleChunkNoMarkerTest(r, chunk) ==
  handleEnd(r, runs[r].rawData \o chunk, [runs EXCEPT ![r].chunks = Append(@, chunk)])

\* `rawData += chunk` assigns the parameter, a copy of the listener's
\* rawData: runs[r].rawData, the listener's variable, keeps its value.
handleChunk(r, chunk) ==
  LET rawData == runs[r].rawData \o chunk
      rs == [runs EXCEPT ![r].chunks = Append(@, chunk)]
  IN IF includes(chunk, HeadClose)
     THEN handleEnd(r, rawData, rs)
     ELSE /\ runs' = rs
          /\ UNCHANGED timeoutAbortController

\* chunks delivered so far, over all responses
RECURSIVE deliveredUpTo(_)
deliveredUpTo(n) == IF n = 0 THEN 0 ELSE Len(runs[n].chunks) + deliveredUpTo(n - 1)
Delivered == deliveredUpTo(Len(runs))

\* the response's 'data' event
Chunk(r, chunk) ==
  /\ runs[r].request = "streaming"
  /\ Delivered < MaxChunks
  /\ handleChunk(r, chunk)
  /\ UNCHANGED <<url, httpAbortController, buffer, extracted, listenerSince>>

\* ----------------------------------------------------------- handleResponse
\* faulty variant: text/plain is looked for anywhere in the content-type
responseErrorPlainAnywhere(statusCode, contentType) ==
  IF statusCode = 0 \/ statusCode > 399 \/ contentType = <<>> THEN MsgFailed
  ELSE IF ~includes(contentType, Html) /\ ~includes(contentType, TextPlain) THEN MsgContentType
  ELSE ""

\* the message of the validation error, "" for an accepted response
responseError(statusCode, contentType) ==
  IF statusCode = 0 \/ statusCode > 399 \/ contentType = <<>> THEN MsgFailed
  ELSE IF ~includes(contentType, Html) /\ contentType # TextPlain THEN MsgContentType
  ELSE ""

\* faulty variant: the `return` after the validation error is left out
handleResponseNoReturn(r, statusCode, contentType) ==
  LET m == responseError(statusCode, contentType)
      rs == [runs EXCEPT ![r].request = "streaming", ![r].rawData = <<>>]
  IN runs' = IF m # "" THEN emit(rs, r, Error(m)) ELSE rs

\* an invalid response is resumed with no listener; a valid one gets the
\* error and data listeners and a fresh rawData
handleResponse(r, statusCode, contentType) ==
  LET m == responseError(statusCode, contentType)
  IN IF m # ""
     THEN runs' = emit([runs EXCEPT ![r].request = "rejected"], r, Error(m))
     ELSE runs' = [runs EXCEPT ![r].request = "streaming", ![r].rawData = <<>>]

\* the callback of get: the response headers have arrived
Respond(r, statusCode, contentType) ==
  /\ runs[r].request = "sent"
  /\ handleResponse(r, statusCode, contentType)
  /\ UNCHANGED <<url, timeoutAbortController, httpAbortController, buffer, extracted,
                 listenerSince>>

\* the request's 'error' listener; name is the error's name
onRequestError(rs, r, name) ==
  IF name = "AbortError" THEN rs ELSE emit(rs, r, Error(MsgHttp))

\* a transport failure before the response
RequestError(r) ==
  /\ runs[r].request = "sent"
  /\ runs' = onRequestError([runs EXCEPT ![r].request = "failed"], r, "Error")
  /\ UNCHANGED <<url, timeoutAbortController, httpAbortController, buffer, extracted,
                 listenerSince>>

\* the response's 'error' listener
onResponseError(rs, r) == emit(rs, r, Error(MsgHttp))

\* the body stream fails, or is destroyed by the abort of its request
ResponseError(r) ==
  /\ runs[r].request \in {"streaming", "aborting"}
  /\ runs' = onResponseError([runs EXCEPT ![r].request = "destroyed"], r)
  /\ UNCHANGED <<url, timeoutAbortController, httpAbortController, buffer, extracted,
                 listenerSince>>

\* the body ends; the code listens to no 'end' of the response
ResponseEnd(r) ==
  /\ runs[r].request = "streaming"
  /\ runs' = [runs EXCEPT ![r].request = "ended"]
  /\ UNCHANGED <<url, timeoutAbortController, httpAbortController, buffer, extracted,
                 listenerSince>>

\* ------------------------------------------------------------ specification
Init ==
  /\ url = <<>>
  /\ timeoutAbortController = 0
  /\ httpAbortController = 1
  /\ runs = <<>>
  /\ buffer = <<>>
  /\ extracted = <<>>
  /\ listenerSince = -1

Next ==
  \/ \E u \in Urls : Construct(u)
  \/ \E u \in Urls : SetUrl(u)
  \/ \E r \in DOMAIN runs : TimerElapses(r)
  \/ \E r \in DOMAIN runs, h \in Responses : Respond(r, h[1], h[2])
  \/ \E r \in DOMAIN runs : RequestError(r)
  \/ \E r \in DOMAIN runs, c \in Chunks : Chunk(r, c)
  \/ \E r \in DOMAIN runs : ResponseError(r)
  \/ \E r \in DOMAIN runs : ResponseEnd(r)

Spec == Init /\ [][Next]_vars

\* =================================================================== claims
\* ------------------------------------------------------------ vocabulary
EventsOf(r) == runs[r].events
Has(r, n) == \E i \in DOMAIN EventsOf(r) : EventsOf(r)[i].name = n
CountOf(r, n) == Cardinality({i \in DOMAIN EventsOf(r) : EventsOf(r)[i].name = n})
HasError(r, m) == \E i \in DOMAIN EventsOf(r) : EventsOf(r)[i] = Error(m)
\* the events a step adds to run r
Added(r) == SubSeq(runs'[r].events, Len(runs[r].events) + 1, Len(runs'[r].events))
AddsName(r, n) == \E i \in DOMAIN Added(r) : Added(r)[i].name = n
\* run r has processed a chunk that contains the marker
MarkerProcessed(r) ==
  \E i \in DOMAIN runs[r].chunks : includes(runs[r].chunks[i], HeadClose)

\* the body delivered so far: the chunks in arrival order
RECURSIVE concat(_)
concat(ss) == IF ss = <<>> THEN <<>> ELSE Head(ss) \o concat(Tail(ss))
Body(r) == concat(runs[r].chunks)
\* the text before the first marker
BeforeHead(body) == split(body, HeadClose)[1]
Occurrences(s, p) ==
  Cardinality({i \in 1..(Len(s) - Len(p) + 1) : SubSeq(s, i, i + Len(p) - 1) = p})
\* the text between the first content=" after the tag's marker and the next quote
ValueOf(s, tag) ==
  LET c == indexOf(s, ContentAttr, indexOf(s, tag, 1) + Len(tag))
      from == c + Len(ContentAttr)
  IN SubSeq(s, from, indexOf(s, Quote, from) - 1)
Embedded(body) ==
  [title |-> ValueOf(BeforeHead(body), OgTitle),
   description |-> ValueOf(BeforeHead(body), OgDescription),
   image |-> ValueOf(BeforeHead(body), OgImage)]
TagsOnceBeforeHead(body) ==
  /\ includes(body, HeadClose)
  /\ \A k \in DOMAIN tags : Occurrences(BeforeHead(body), tags[k]) = 1

\* C1: when an accepted response's body holds each og tag once before the
\* first </head>, however it was cut into chunks, the run has emitted a data
\* event whose payload is the three embedded values, and end right after it.
C1_DataEqualsEmbedded ==
  \A r \in DOMAIN runs :
    (runs[r].request = "ended" /\ TagsOnceBeforeHead(Body(r)))
      => \E i \in DOMAIN EventsOf(r) :
           /\ EventsOf(r)[i] = Data(Embedded(Body(r)))
           /\ i < Len(EventsOf(r))
           /\ EventsOf(r)[i + 1] = End

\* C2: events of a run come in the order startedParsing, data, end: a data
\* has a startedParsing before it, an end comes right after a data, every
\* data is followed at once by end, and the step that emits them emits
\* nothing for another run.
C2_Order ==
  \A r \in DOMAIN runs : \A i \in DOMAIN EventsOf(r) :
    /\ EventsOf(r)[i].name = "data" =>
         /\ \E j \in 1..(i - 1) : EventsOf(r)[j].name = "startedParsing"
         /\ i < Len(EventsOf(r))
         /\ EventsOf(r)[i + 1].name = "end"
    /\ EventsOf(r)[i].name = "end" => (i > 1 /\ EventsOf(r)[i - 1].name = "data")
C2_Adjacent ==
  \A r \in DOMAIN runs :
    AddsName(r, "data") =>
      /\ Len(Added(r)) = 2
      /\ Added(r)[2].name = "end"
      /\ \A q \in DOMAIN runs : q # r => runs'[q].events = runs[q].events
C2_StartedDataEnd == []C2_Order /\ [][C2_Adjacent]_vars
C2_Witness == \E r \in DOMAIN runs : Has(r, "data") /\ Has(r, "end")

\* C3: a run emits at most one data event and at most one end event, also
\* when </head> occurs in more than one chunk.
C3_OneDataOneEnd ==
  \A r \in DOMAIN runs : CountOf(r, "data") <= 1 /\ CountOf(r, "end") <= 1

\* C4: a run started with an empty URL, by the constructor or by setUrl, has
\* no request and no timer, and its only event is the error "URL is required".
C4_EmptyUrl ==
  \A r \in DOMAIN runs :
    runs[r].url = <<>> =>
      /\ runs[r].request = "none"
      /\ runs[r].timer = "none"
      /\ EventsOf(r) = <<Error(MsgRequired)>>
C4_Witness ==
  /\ Len(runs) = 2
  /\ runs[2].url = <<>>
  /\ runs[1].timer = "pending"
  /\ timeoutAbortController = 1

\* C5: a run started with a non-empty URL that does not begin with http has
\* no request and no timer, and its only event is the error "URL should start
\* with http or https".
C5_NotHttp ==
  \A r \in DOMAIN runs :
    (runs[r].url # <<>> /\ ~startsWith(runs[r].url, Http)) =>
      /\ runs[r].request = "none"
      /\ runs[r].timer = "none"
      /\ EventsOf(r) = <<Error(MsgScheme)>>
C5_Witness ==
  /\ Len(runs) = 2
  /\ runs[2].url = UrlFtp
  /\ runs[1].timer = "pending"
  /\ timeoutAbortController = 1

\* C6: when a run's delay elapses before the run has processed a chunk that
\* contains </head>, the step aborts the run's request and emits the one
\* error "Request Timed Out" for the run; afterwards the run emits no data,
\* no end and no second "Request Timed Out".
C6_Elapse ==
  \A r \in DOMAIN runs :
    (runs[r].timer = "pending" /\ runs'[r].timer = "elapsed" /\ ~MarkerProcessed(r)) =>
      /\ runs'[r].request = afterAbort(runs[r].request)
      /\ runs'[r].request \notin {"sent", "streaming"}
      /\ Added(r) = <<Error(MsgTimeout)>>
      /\ ~HasError(r, MsgTimeout)
C6_After ==
  \A r \in DOMAIN runs :
    (runs[r].timer = "elapsed" /\ ~MarkerProcessed(r)) =>
      \A i \in DOMAIN Added(r) :
        Added(r)[i].name \notin {"data", "end"} /\ Added(r)[i] # Error(MsgTimeout)
C6_Timeout == [][C6_Elapse /\ C6_After]_vars
\* the delay elapsed while the body was streaming, after a first chunk
C6_Witness ==
  \E r \in DOMAIN runs :
    /\ runs[r].timer = "elapsed"
    /\ ~MarkerProcessed(r)
    /\ Len(runs[r].chunks) > 0
    /\ runs[r].request = "aborting"
    /\ HasError(r, MsgTimeout)

\* C7: when a run emits its end and no setUrl was called since the run
\* started, the run's delay is cancelled in that step; a cancelled delay
\* stays cancelled, emits no "Request Timed Out" and aborts no request.
C7_EndCancels ==
  \A r \in DOMAIN runs :
    /\ (r = Len(runs) /\ ~Has(r, "end") /\ AddsName(r, "end")) =>
         runs'[r].timer = "cancelled"
    /\ runs[r].timer = "cancelled" =>
         /\ runs'[r].timer = "cancelled"
         /\ \A i \in DOMAIN Added(r) : Added(r)[i] # Error(MsgTimeout)
C7_NoTimeoutAfterEnd == [][C7_EndCancels]_vars
C7_Witness ==
  \E r \in DOMAIN runs :
    /\ r = Len(runs)
    /\ r > 1
    /\ Has(r, "end")
    /\ runs[r].timer = "cancelled"
    /\ runs[r].request = "ended"

\* C8: once a run has emitted a transport-error or invalid-response error its
\* delay is cancelled: the run emits no "Request Timed Out", so it emits at
\* most one error.
C8_FirstOutcomeCancelsTimer ==
  \A r \in DOMAIN runs :
    (HasError(r, MsgHttp) \/ HasError(r, MsgFailed) \/ HasError(r, MsgContentType)) =>
      /\ ~HasError(r, MsgTimeout)
      /\ CountOf(r, "error") <= 1

\* C9: once a run has emitted an error without having emitted data, it
\* emits neither data nor end afterwards.
C9_NoDataAfterError ==
  \A r \in DOMAIN runs : \A i \in DOMAIN EventsOf(r) :
    (/\ EventsOf(r)[i].name = "error"
     /\ \A j \in 1..(i - 1) : EventsOf(r)[j].name # "data") =>
      \A k \in (i + 1)..Len(EventsOf(r)) : EventsOf(r)[k].name \notin {"data", "end"}
C9_Witness ==
  \E r \in DOMAIN runs :
    /\ Has(r, "error")
    /\ ~Has(r, "data")
    /\ Len(runs[r].chunks) > 0
    /\ runs[r].request = "destroyed"

\* C10: a delay that elapses after setUrl has started a newer run emits no
\* error and leaves the newer run's request alone.
C10_Step ==
  \A r \in DOMAIN runs :
    (/\ runs[r].timer = "pending"
     /\ runs'[r].timer = "elapsed"
     /\ \E q \in DOMAIN runs : q > r /\ runs[q].timer # "none") =>
      /\ Added(r) = <<>>
      /\ \A q \in DOMAIN runs : q > r => runs'[q].request = runs[q].request
C10_StaleTimerSuppressed == [][C10_Step]_vars

\* ------------------------------------------- setUrl called after an error
\* The caller waits for an error of the latest run before the next setUrl.
SetUrlAfterError(u) ==
  /\ Constructed
  /\ Has(Len(runs), "error")
  /\ SetUrl(u)

NextAfterError ==
  \/ \E u \in Urls : Construct(u)
  \/ \E u \in Urls : SetUrlAfterError(u)
  \/ \E r \in DOMAIN runs : TimerElapses(r)
  \/ \E r \in DOMAIN runs, h \in Responses : Respond(r, h[1], h[2])
  \/ \E r \in DOMAIN runs : RequestError(r)
  \/ \E r \in DOMAIN runs, c \in Chunks : Chunk(r, c)
  \/ \E r \in DOMAIN runs : ResponseError(r)
  \/ \E r \in DOMAIN runs : ResponseEnd(r)

SpecAfterError == Init /\ [][NextAfterError]_vars

\* C11: when every setUrl comes after an error of the run before it, nothing
\* that happens to a run that has emitted an error reaches a later run: a
\* step that changes the earlier run leaves the later run's timer, request,
\* chunks and events as they are.
C11_Step ==
  \A r \in DOMAIN runs : \A q \in DOMAIN runs :
    (r < q /\ Has(r, "error") /\ runs'[r] # runs[r]) => runs'[q] = runs[q]
C11_ErrorIsLocal == [][C11_Step]_vars

\* the getter URL
URL == url

\* the step starts a run that emits startedParsing
StartsRun == Len(runs') > Len(runs) /\ runs'[Len(runs')].events = <<Started>>

\* C12 as stated: in every step that emits startedParsing or end for a run,
\* the URL getter returns, at the emit, the URL the run was started with.
C12_AtStarted == StartsRun => URL' = runs'[Len(runs')].url
C12_AtEveryEnd == \A r \in DOMAIN runs : AddsName(r, "end") => URL' = runs[r].url
C12_UrlAtStartedAndEnd == [][C12_AtStarted /\ C12_AtEveryEnd]_vars

\* C12, amended: the getter returns the run's URL at its startedParsing, and
\* at its end when no setUrl was called since the run started.
C12_AtLatestEnd ==
  \A r \in DOMAIN runs : (r = Len(runs) /\ AddsName(r, "end")) => URL' = runs[r].url
C12_UrlOfLatestCall == [][C12_AtStarted /\ C12_AtLatestEnd]_vars
\* a run started by setUrl has emitted its end
C12_Witness ==
  /\ Len(runs) > 1
  /\ Has(Len(runs), "end")
  /\ URL = runs[Len(runs)].url
  /\ runs[1].timer # "none"

\* ------------------------------------------------ _parseBody on its own
\* longest buffer, in lines
MaxLines == 2

\* the three meta tags of the test page, one per line
MetaTitle ==
  <<"<", "m", "e", "t", "a", " ", "p", "r", "o", "p", "e", "r", "t", "y", "=", "\"",
    "o", "g", ":", "t", "i", "t", "l", "e", "\"", " ", "c", "o", "n", "t", "e", "n",
    "t", "=", "\"", "T", "e", "s", "t", " ", "T", "i", "t", "l", "e", "\"", " ", "/",
    ">">>
MetaDescription ==
  <<"<", "m", "e", "t", "a", " ", "p", "r", "o", "p", "e", "r", "t", "y", "=", "\"",
    "o", "g", ":", "d", "e", "s", "c", "r", "i", "p", "t", "i", "o", "n", "\"", " ",
    "c", "o", "n", "t", "e", "n", "t", "=", "\"", "T", "e", "s", "t", " ", "D", "e",
    "s", "c", "r", "i", "p", "t", "i", "o", "n", "\"", " ", "/", ">">>
MetaImage ==
  <<"<", "m", "e", "t", "a", " ", "p", "r", "o", "p", "e", "r", "t", "y", "=", "\"",
    "o", "g", ":", "i", "m", "a", "g", "e", "\"", " ", "c", "o", "n", "t", "e", "n",
    "t", "=", "\"", "h", "t", "t", "p", "s", ":", "/", "/", "e", "x", "a", "m", "p",
    "l", "e", ".", "c", "o", "m", "/", "i", "m", "a", "g", "e", ".", "j", "p", "g",
    "\"", " ", "/", ">">>
\* a second title tag, with another value
MetaTitle2 ==
  <<"<", "m", "e", "t", "a", " ", "p", "r", "o", "p", "e", "r", "t", "y", "=", "\"",
    "o", "g", ":", "t", "i", "t", "l", "e", "\"", " ", "c", "o", "n", "t", "e", "n",
    "t", "=", "\"", "T", "2", "\"", " ", "/", ">">>
\* the attribute content before the attribute property
MetaImageContentFirst ==
  <<"<", "m", "e", "t", "a", " ", "c", "o", "n", "t", "e", "n", "t", "=", "\"", "I",
    "\"", " ", "p", "r", "o", "p", "e", "r", "t", "y", "=", "\"", "o", "g", ":", "i",
    "m", "a", "g", "e", "\"", " ", "/", ">">>
\* a marker and no content="
MarkerOnly ==
  <<"<", "!", "-", "-", " ", "o", "g", ":", "d", "e", "s", "c", "r", "i", "p", "t",
    "i", "o", "n", " ", "-", "-", ">">>
\* a line with no marker
TitleLine ==
  <<"<", "t", "i", "t", "l", "e", ">", "x", "<", "/", "t", "i", "t", "l", "e", ">">>
\* the three meta tags on one line
MetaAll == MetaTitle \o MetaDescription \o MetaImage
Lines ==
  {MetaTitle, MetaDescription, MetaImage, MetaAll, MetaTitle2, MetaImageContentFirst,
   MarkerOnly, TitleLine, HeadClose}

\* the lines joined by "\n"
RECURSIVE join(_)
join(ls) ==
  IF ls = <<>> THEN <<>>
  ELSE IF Len(ls) = 1 THEN ls[1]
  ELSE ls[1] \o Newline \o join(Tail(ls))
Buffers == {join(ls) : ls \in UNION {[1..n -> Lines] : n \in 0..MaxLines}}

InitParseBody ==
  /\ url = <<>>
  /\ timeoutAbortController = 0
  /\ httpAbortController = 1
  /\ runs = <<>>
  /\ buffer \in Buffers
  /\ extracted = <<>>
  /\ listenerSince = -1

\* one call of _parseBody
ParseBody ==
  /\ extracted = <<>>
  /\ extracted' = <<parseBody(buffer)>>
  /\ UNCHANGED <<url, timeoutAbortController, httpAbortController, runs, buffer,
                 listenerSince>>

NextParseBody == ParseBody

SpecParseBody == InitParseBody /\ [][NextParseBody]_vars

TestTitle ==
  <<"T", "e", "s", "t", " ", "T", "i", "t", "l", "e">>
TestDescription ==
  <<"T", "e", "s", "t", " ", "D", "e", "s", "c", "r", "i", "p", "t", "i", "o", "n">>
TestImage ==
  <<"h", "t", "t", "p", "s", ":", "/", "/", "e", "x", "a", "m", "p", "l", "e", ".",
    "c", "o", "m", "/", "i", "m", "a", "g", "e", ".", "j", "p", "g">>

\* the call returned, with obj
Returned == extracted # <<>> /\ ~extracted[1].fault
\* the text between the first content=" after the marker and the next quote
ValueAfterMarker(line, tag) ==
  LET c == indexOf(line, ContentAttr, indexOf(line, tag, 1) + Len(tag))
      from == c + Len(ContentAttr)
      q == indexOf(line, Quote, from)
  IN SubSeq(line, from, IF q = 0 THEN Len(line) ELSE q - 1)
HasContentAfterMarker(line, tag) ==
  /\ includes(line, tag)
  /\ indexOf(line, ContentAttr, indexOf(line, tag, 1) + Len(tag)) # 0
LinesOf(b) == split(b, Newline)

\* C13: when _parseBody returns, for every tag and the last line of the
\* buffer that holds the tag's marker, with a content=" after the marker, the
\* value stored for the tag is the text between that content=" and the next
\* quote; the three meta tags on one line give the three values of the test
\* page.
C13_ValueAfterMarker ==
  Returned =>
    /\ \A k \in DOMAIN tags : \A i \in DOMAIN LinesOf(buffer) :
         (/\ HasContentAfterMarker(LinesOf(buffer)[i], tags[k])
          /\ \A j \in (i + 1)..Len(LinesOf(buffer)) : ~includes(LinesOf(buffer)[j], tags[k]))
           => extracted[1].obj[tagKey(tags[k])] = ValueAfterMarker(LinesOf(buffer)[i], tags[k])
    /\ buffer = MetaAll =>
         extracted[1].obj =
           [title |-> TestTitle, description |-> TestDescription, image |-> TestImage]

\* C14: when _parseBody returns, its result has exactly the keys title,
\* description and image, and the key of a marker that no line of the buffer
\* holds has the value ""; a buffer without any marker gives three "".
C14_ThreeKeys ==
  Returned =>
    /\ DOMAIN extracted[1].obj = {"title", "description", "image"}
    /\ \A k \in DOMAIN tags :
         (\A i \in DOMAIN LinesOf(buffer) : ~includes(LinesOf(buffer)[i], tags[k]))
           => extracted[1].obj[tagKey(tags[k])] = <<>>
    /\ (\A k \in DOMAIN tags : ~includes(buffer, tags[k])) => extracted[1].obj = EmptyParsed
\* a buffer of two lines with a title tag and neither of the other markers
C14_Witness ==
  /\ Returned
  /\ Len(LinesOf(buffer)) = 2
  /\ includes(buffer, OgTitle)
  /\ ~includes(buffer, OgDescription)
  /\ ~includes(buffer, OgImage)
  /\ extracted[1].obj = [title |-> TestTitle, description |-> <<>>, image |-> <<>>]

\* the events a step adds to run r hold no error but "Request Timed Out"
AddsNoErrorButTimeout(r) ==
  \A i \in DOMAIN Added(r) : Added(r)[i].name = "error" => Added(r)[i] = Error(MsgTimeout)

\* C15: a failure of the request or of the body stream emits the one error
\* "Tiny Parser Got error while doing http call" for its run, and a request
\* aborted by a timeout, before or after the response head and chunks have
\* arrived, brings its run no error but "Request Timed Out".
C15_Step ==
  \A r \in DOMAIN runs :
    /\ (runs[r].request = "sent" /\ runs'[r].request = "failed")
         => Added(r) = <<Error(MsgHttp)>>
    /\ (runs[r].request = "streaming" /\ runs'[r].request = "destroyed")
         => Added(r) = <<Error(MsgHttp)>>
    /\ (runs[r].request \in {"aborted", "aborting"} \/ runs'[r].request \in {"aborted", "aborting"})
         => AddsNoErrorButTimeout(r)
C15_AbortIsSilent == [][C15_Step]_vars

\* the step hands run r a chunk that holds the marker
MarkerChunkStep(r) ==
  /\ Len(runs'[r].chunks) = Len(runs[r].chunks) + 1
  /\ includes(runs'[r].chunks[Len(runs'[r].chunks)], HeadClose)
\* all chunks of the run so far, cut after the first </head>
UpToHead(chunks) == BeforeHead(concat(chunks)) \o HeadClose

\* C16: in the step in which a run processes its first chunk that holds
\* </head>, the text given to _parseBody is the run's chunks so far, in
\* arrival order, cut after the first </head>: the data event of the step
\* carries what _parseBody returns for that text.
C16_Step ==
  \A r \in DOMAIN runs :
    (/\ MarkerChunkStep(r)
     /\ ~MarkerProcessed(r)
     /\ ~parseBody(UpToHead(runs'[r].chunks)).fault) =>
      \E i \in DOMAIN Added(r) :
        Added(r)[i] = Data(parseBody(UpToHead(runs'[r].chunks)).obj)
C16_AllChunksExtracted == [][C16_Step]_vars

\* C17: once a run has processed a chunk that holds </head> its response is
\* no longer streaming, and no step hands the run another chunk.
C17_Step ==
  \A r \in DOMAIN runs :
    MarkerProcessed(r) =>
      /\ runs[r].request # "streaming"
      /\ runs'[r].chunks = runs[r].chunks
C17_StopsReading == [][C17_Step]_vars

\* the body of run r has ended and no chunk of it held </head>
EndedWithoutMarker(r) == runs[r].request = "ended" /\ ~MarkerProcessed(r)

\* C18 as stated: a run whose body has ended without </head> has emitted
\* neither data nor end, and emits no data, no end and no error afterwards.
C18_Silent ==
  \A r \in DOMAIN runs : EndedWithoutMarker(r) => ~Has(r, "data") /\ ~Has(r, "end")
C18_NothingLater == \A r \in DOMAIN runs : EndedWithoutMarker(r) => Added(r) = <<>>
C18_NoTerminalEvent == []C18_Silent /\ [][C18_NothingLater]_vars

\* C18, amended: such a run has emitted neither data nor end, and the only
\* event it emits afterwards is the error "Request Timed Out" of its delay.
C18_TimeoutOnlyLater ==
  \A r \in DOMAIN runs :
    EndedWithoutMarker(r) =>
      \/ Added(r) = <<>>
      \/ Added(r) = <<Error(MsgTimeout)>> /\ runs[r].timer = "pending"
C18_NoDataNoEnd == []C18_Silent /\ [][C18_TimeoutOnlyLater]_vars
\* the body ended after a chunk without the marker, then the delay elapsed
C18_Witness ==
  \E r \in DOMAIN runs :
    /\ EndedWithoutMarker(r)
    /\ Len(runs[r].chunks) > 0
    /\ runs[r].timer = "elapsed"
    /\ HasError(r, MsgTimeout)

\* a response head <<statusCode, content-type>> the claim accepts
Accepted(h) ==
  /\ h[1] # 0
  /\ h[1] <= 399
  /\ h[2] # <<>>
  /\ (includes(h[2], Html) \/ h[2] = TextPlain)

\* C19: a response is accepted, its body streaming to the data listener, if
\* and only if its status is present and at most 399 and its content-type
\* is present and holds html or is exactly text/plain; any other response
\* emits one invalid-response error and is rejected, and a rejected response
\* stays so: none of its chunks reaches the run and the run emits no data.
C19_AtResponse ==
  \A r \in DOMAIN runs : \A h \in Responses :
    Respond(r, h[1], h[2]) =>
      IF Accepted(h)
      THEN runs'[r].request = "streaming" /\ Added(r) = <<>>
      ELSE /\ runs'[r].request = "rejected"
           /\ Added(r) \in {<<Error(MsgFailed)>>, <<Error(MsgContentType)>>}
C19_Rejected ==
  \A r \in DOMAIN runs :
    runs[r].request = "rejected" =>
      /\ runs'[r].request = "rejected"
      /\ runs[r].chunks = <<>>
      /\ runs'[r].chunks = <<>>
      /\ ~AddsName(r, "data")
      /\ ~AddsName(r, "end")
C19_AcceptedIff == [][C19_AtResponse /\ C19_Rejected]_vars
\* one response refused for its content-type, another accepted and streaming
C19_Witness ==
  \E r \in DOMAIN runs : \E q \in DOMAIN runs :
    /\ runs[r].request = "rejected"
    /\ EventsOf(r) = <<Started, Error(MsgContentType)>>
    /\ runs[q].request = "streaming"
    /\ Len(runs[q].chunks) > 0

\* C20: the request of every run is made with a request controller that no
\* earlier run's request was made with, and the step in which a run emits
\* its end, and so calls _clearTimeout, cancels the delay of no later run.
C20_FreshSignal ==
  \A r \in DOMAIN runs : \A q \in DOMAIN runs :
    (r < q /\ runs[r].request # "none" /\ runs[q].request # "none")
      => runs[r].signal # runs[q].signal
C20_OwnTimerOnly ==
  \A r \in DOMAIN runs : \A q \in DOMAIN runs :
    (r < q /\ AddsName(r, "end") /\ runs[q].timer = "pending")
      => runs'[q].timer = "pending"
C20_HandlesPerRun == []C20_FreshSignal /\ [][C20_OwnTimerOnly]_vars

\* the value _parseBody takes from one line for a tag
ValueOfLine(line, tag) == split(split(line, ContentAttr)[2], Quote)[1]
\* line i is the last line of the buffer that holds the tag's marker
LastLineWith(i, tag) ==
  /\ includes(LinesOf(buffer)[i], tag)
  /\ \A j \in (i + 1)..Len(LinesOf(buffer)) : ~includes(LinesOf(buffer)[j], tag)

\* C21: when _parseBody returns and a tag's marker is on one or more lines
\* of the buffer, the value stored for the tag is the one taken from the
\* last of these lines, whatever the earlier lines gave.
C21_LastLineWins ==
  Returned =>
    \A k \in DOMAIN tags : \A i \in DOMAIN LinesOf(buffer) :
      LastLineWith(i, tags[k])
        => extracted[1].obj[tagKey(tags[k])] = ValueOfLine(LinesOf(buffer)[i], tags[k])
\* two title tags with different values on two lines
C21_Witness ==
  /\ Returned
  /\ LinesOf(buffer) = <<MetaTitle, MetaTitle2>>
  /\ extracted[1].obj.title = <<"T", "2">>

\* ------------------------------------------------- one run, more bodies
\* a marker without content=" on the line before </head>
ChunkBare == MarkerOnly \o Newline \o ChunkHead
\* </head> cut in two
ChunkHeadStart == <<"<", "/", "h", "e">>
ChunkHeadRest == <<"a", "d", ">", "\n">>
Bodies == Chunks \cup {ChunkBare, ChunkHeadStart, ChunkHeadRest}

\* the engine with no setUrl call and the chunks of Bodies
NextOneRun ==
  \/ \E u \in Urls : Construct(u)
  \/ \E r \in DOMAIN runs : TimerElapses(r)
  \/ \E r \in DOMAIN runs, h \in Responses : Respond(r, h[1], h[2])
  \/ \E r \in DOMAIN runs : RequestError(r)
  \/ \E r \in DOMAIN runs, c \in Bodies : Chunk(r, c)
  \/ \E r \in DOMAIN runs : ResponseError(r)
  \/ \E r \in DOMAIN runs : ResponseEnd(r)

SpecOneRun == Init /\ [][NextOneRun]_vars

\* the text handleEnd gives to _parseBody in a step that hands run r a chunk
HandedToParseBody(r) ==
  split(runs[r].rawData \o runs'[r].chunks[Len(runs'[r].chunks)], HeadClose)[1] \o HeadClose
\* some line holds a marker and no content="
HasBareMarker(text) ==
  \E i \in DOMAIN LinesOf(text) :
    /\ \E k \in DOMAIN tags : includes(LinesOf(text)[i], tags[k])
    /\ ~includes(LinesOf(text)[i], ContentAttr)

\* C22: when the text given to _parseBody, which ends with the first
\* </head>, has a line with a marker and no content=", _parseBody faults,
\* and the step emits nothing for the run and leaves its delay and the timer
\* controller as they are.
C22_Step ==
  \A r \in DOMAIN runs :
    (MarkerChunkStep(r) /\ HasBareMarker(HandedToParseBody(r))) =>
      /\ parseBody(HandedToParseBody(r)).fault
      /\ Added(r) = <<>>
      /\ runs'[r].timer = runs[r].timer
      /\ timeoutAbortController' = timeoutAbortController
C22_FaultIsSilent == [][C22_Step]_vars
\* the faulting chunk was processed while the delay was pending
C22_Witness ==
  \E r \in DOMAIN runs :
    /\ runs[r].chunks = <<ChunkBare>>
    /\ EventsOf(r) = <<Started>>
    /\ runs[r].timer = "pending"
    /\ timeoutAbortController = r

\* no chunk of run r holds the whole marker
NoMarkerChunk(r) == \A i \in DOMAIN runs[r].chunks : ~includes(runs[r].chunks[i], HeadClose)

\* C24: a run none of whose chunks holds the whole of </head> has emitted
\* neither data nor end, also when two consecutive chunks together hold it.
C24_MarkerPerChunk ==
  \A r \in DOMAIN runs : NoMarkerChunk(r) => ~Has(r, "data") /\ ~Has(r, "end")
\* </head> arrived cut in two and the body has ended
C24_Witness ==
  \E r \in DOMAIN runs :
    /\ runs[r].chunks = <<ChunkHeadStart, ChunkHeadRest>>
    /\ includes(Body(r), HeadClose)
    /\ NoMarkerChunk(r)
    /\ runs[r].request = "ended"
    /\ ~Has(r, "data")

\* ------------------------------------------------------- timers do elapse
\* A delay of timers/promises that is not aborted elapses after its time;
\* the server and the caller are free to do nothing.
TimerFairness == \A r \in 1..MaxRuns : WF_vars(r \in DOMAIN runs /\ TimerElapses(r))
SpecTimers == Init /\ [][Next]_vars /\ TimerFairness

\* C23: every run that has emitted startedParsing emits, sooner or later, an
\* end or an error, whatever the server does.
C23_Outcome ==
  \A r \in 1..MaxRuns :
    (r \in DOMAIN runs /\ Has(r, "startedParsing"))
      ~> (r \in DOMAIN runs /\ (Has(r, "end") \/ Has(r, "error")))

\* ------------------------------------------------ a listener on one engine
\* emit() calls made so far on an engine with no setUrl call
Emitted == IF runs = <<>> THEN 0 ELSE Len(runs[1].events)

\* parser.on(...) on the parser the constructor returned
On ==
  /\ Constructed
  /\ listenerSince = -1
  /\ listenerSince' = Emitted
  /\ UNCHANGED <<url, timeoutAbortController, httpAbortController, runs, buffer, extracted>>

NextListener ==
  \/ \E u \in Urls : Construct(u)
  \/ On
  \/ \E r \in DOMAIN runs : TimerElapses(r)
  \/ \E r \in DOMAIN runs, h \in Responses : Respond(r, h[1], h[2])
  \/ \E r \in DOMAIN runs : RequestError(r)
  \/ \E r \in DOMAIN runs, c \in Chunks : Chunk(r, c)
  \/ \E r \in DOMAIN runs : ResponseError(r)
  \/ \E r \in DOMAIN runs : ResponseEnd(r)

SpecListener == Init /\ [][NextListener]_vars

\* the listener was called for the i-th emit(): it was registered before it
Heard(i) == listenerSince # -1 /\ listenerSince < i /\ i <= Emitted

====
